---- MODULE Spec2Model ----
(***************************************************************************)
(* The local persistence adapter of the university directory              *)
(* (services/universityService, concatenated at the end of                *)
(* src/src/pages/UniversitiesPage.tsx, lines 478-612) and the Admin form   *)
(* submit that drives it (src/src/pages/AdminPage.tsx).                    *)
(*                                                                         *)
(* A JavaScript object is a function from the keys it has to their values; *)
(* a key that is absent (undefined) is not in the DOMAIN.  Text that the   *)
(* code trims, lower-cases or searches is a sequence of one-character      *)
(* strings; ids are compared only for equality and are plain strings.      *)
(***************************************************************************)
EXTENDS Integers, Sequences, FiniteSets, TLC

VARIABLES
    hasStorage,     \* getStorage() returns window.localStorage (TRUE) or null
    hasCrypto,      \* crypto.randomUUID is available
    now,            \* the latest value Date.now() returned to nextId
    uuids,          \* number of randomUUID() calls made so far
    writes,         \* number of writes made to the collection so far
    slot,           \* localStorage[STORAGE_KEY]: [kind, data]
    inMemoryStore,  \* the module-level let inMemoryStore
    last,           \* the last call: operation, arguments, outcome, result
    pending,        \* adapter calls whose promise has not settled yet
    page,           \* a mounted list or detail page: its state and its loads
    admin,          \* AdminPage: its state and the submit in progress
    net             \* the remote adapter: the HTTP exchanges of its calls

vars == <<hasStorage, hasCrypto, now, uuids, writes, slot, inMemoryStore, last,
          pending, page, admin, net>>

\* the parts of the state that the calls of the local adapter do not touch
Pages == <<page, admin, net>>

(***************************************************************************)
(* Bounds of the model.                                                    *)
(***************************************************************************)
MaxWrites == 2      \* writes explored: writeStore calls and corruptions of the slot

(***************************************************************************)
(* Objects and text.                                                       *)
(***************************************************************************)
EmptyObj == <<>>

\* o.k ?? d
Get(o, k, d) == IF k \in DOMAIN o THEN o[k] ELSE d

\* { ...a, ...b }
Spread(a, b) ==
    [k \in (DOMAIN a) \cup (DOMAIN b) |-> IF k \in DOMAIN b THEN b[k] ELSE a[k]]

\* String.prototype.toLowerCase, on the letters the model uses
LowerChar(c) ==
    CASE c = "A" -> "a"
      [] c = "B" -> "b"
      [] c = "X" -> "x"
      [] c = "Y" -> "y"
      [] c = "U" -> "u"
      [] OTHER -> c

toLowerCase(s) == [i \in 1..Len(s) |-> LowerChar(s[i])]

\* String.prototype.includes
includes(hay, needle) ==
    \E i \in 0..(Len(hay) - Len(needle)) :
        SubSeq(hay, i + 1, i + Len(needle)) = needle

RECURSIVE trimStart(_)
trimStart(s) ==
    IF s # <<>> /\ Head(s) = " " THEN trimStart(Tail(s)) ELSE s

RECURSIVE trimEnd(_)
trimEnd(s) ==
    IF s # <<>> /\ s[Len(s)] = " " THEN trimEnd(SubSeq(s, 1, Len(s) - 1)) ELSE s

\* String.prototype.trim
trim(s) == trimEnd(trimStart(s))

\* Array.prototype.map
Map(Op(_), s) == [i \in 1..Len(s) |-> Op(s[i])]

\* Array.prototype.indexOf, 1-based, 0 when absent
indexOf(arr, x) ==
    IF \E i \in 1..Len(arr) : arr[i] = x
    THEN CHOOSE i \in 1..Len(arr) :
            arr[i] = x /\ \A j \in 1..(i - 1) : arr[j] # x
    ELSE 0

degreeLevels == <<"bachelor", "masters", "phd">>

DegreeLevel == {"bachelor", "masters", "phd"}

(***************************************************************************)
(* normalizeUniversity: the record with restrictedCountries trimmed and    *)
(* its empty entries dropped.  Nothing else of the record is touched.      *)
(***************************************************************************)
NonEmpty(country) == country # <<>>

\* as normalizeUniversity, had the empty strings been filtered before the trim
normalizeUniversity_filtersFirst(uni) ==
    Spread(uni,
           [restrictedCountries |->
               Map(trim, SelectSeq(Get(uni, "restrictedCountries", <<>>), NonEmpty))])

normalizeUniversity(uni) ==
    Spread(uni,
           [restrictedCountries |->
               SelectSeq(Map(trim, Get(uni, "restrictedCountries", <<>>)), NonEmpty)])

(***************************************************************************)
(* normalizeRestrictedCountries: trimmed, non-empty, first occurrences.    *)
(***************************************************************************)
RECURSIVE keepFirst(_, _)
keepFirst(arr, n) ==
    IF n = 0 THEN <<>>
    ELSE IF arr[n] # <<>> /\ indexOf(arr, arr[n]) = n
         THEN Append(keepFirst(arr, n - 1), arr[n])
         ELSE keepFirst(arr, n - 1)

normalizeRestrictedCountries(list) ==
    LET arr == Map(trim, list) IN keepFirst(arr, Len(arr))

(***************************************************************************)
(* JSON.stringify / JSON.parse.  The values of the model are JSON values   *)
(* (no undefined, NaN or cyclic member), which the pair carries through    *)
(* unchanged; text that does not parse, or parses to something the         *)
(* readStore try block throws on, is the slot kind "corrupt"; a missing    *)
(* item or the empty string (!raw) is the kind "absent".                   *)
(***************************************************************************)
stringify(data) == [kind |-> "json", data |-> data]

clone(value) == value

Absent == [kind |-> "absent", data |-> <<>>]

Corrupt == [kind |-> "corrupt", data |-> <<>>]

(***************************************************************************)
(* The values the model draws its inputs from.                             *)
(***************************************************************************)
Program(n) == [name |-> n, duration |-> <<"4">>, delivery |-> <<"o">>]

Scholarship(n) ==
    [name |-> n, amount |-> <<"9">>, eligibility |-> <<"e">>, deadline |-> <<"d">>]

NoFees == [application |-> 0, averageTuition |-> EmptyObj]

emptyPrograms == [l \in DegreeLevel |-> <<>>]

emptyScholarships == [l \in DegreeLevel |-> <<>>]

\* the bundled data/universities.json: records of type University
seedUniversities ==
    << [id |-> "1", name |-> <<"A", "b">>, portalUrl |-> <<"p">>,
        location |-> <<"X">>, overview |-> <<"o">>, fees |-> NoFees,
        programs |-> [emptyPrograms EXCEPT !["bachelor"] = <<Program(<<"C">>)>>],
        scholarships |-> emptyScholarships,
        restrictedCountries |-> << <<"U">> >>] >>

\* what an earlier writer may have left in the slot: a record with some
\* degree levels missing and restricted countries not yet de-duplicated
LegacySlot ==
    << [id |-> "1", name |-> <<"b">>, portalUrl |-> <<"p">>,
        location |-> <<"x", "y">>, fees |-> NoFees,
        programs |-> [l \in {"masters"} |-> <<Program(<<"C">>)>>],
        scholarships |-> [l \in {"masters"} |-> <<>>],
        restrictedCountries |-> << <<" ", "U">>, <<"U">>, <<" ">> >>] >>

CreatePayloads ==
    { \* every required field, some degree levels left out, no id
      [name |-> <<"b">>, portalUrl |-> <<"p">>, location |-> <<"x", "y">>,
       programs |-> [l \in {"phd"} |-> <<Program(<<"C">>)>>],
       restrictedCountries |-> << <<"U", " ">>, <<" ">>, <<"U">> >>],
      \* a payload that carries an id
      [id |-> "1", name |-> <<"A", "b">>, portalUrl |-> <<"p">>, location |-> <<"X">>],
      \* portalUrl missing
      [name |-> <<"b">>, location |-> <<"X">>],
      \* name empty
      [name |-> <<>>, portalUrl |-> <<"p">>, location |-> <<"X">>],
      \* location empty
      [name |-> <<"b">>, portalUrl |-> <<"p">>, location |-> <<>>] }

UpdatePayloads ==
    { [overview |-> <<"n">>],
      [id |-> "2", name |-> <<>>,
       restrictedCountries |-> << <<"U", " ">>, <<" ">>, <<"U">> >>] }

UnknownId == "zz"

NoFilters == [given |-> FALSE, f |-> EmptyObj]

FilterArgs ==
    { NoFilters,
      [given |-> TRUE, f |-> [search |-> <<"a">>, location |-> <<>>]],
      [given |-> TRUE, f |-> [location |-> <<"x", "Y">>, degreeLevel |-> "phd"]] }

(***************************************************************************)
(* readStore, on a slot s and an in-memory store m: the collection it      *)
(* returns, and the in-memory store and the slot it leaves.                *)
(***************************************************************************)
\* as readStoreOf, had the catch block written the seed instead of inMemoryStore
readStoreOf_reseeds(s, m) ==
    LET seed == Map(normalizeUniversity, seedUniversities)
    IN IF ~hasStorage
       THEN [ret |-> clone(m), mem |-> m, slot |-> s]
       ELSE IF s.kind = "absent"
       THEN [ret |-> clone(m), mem |-> m, slot |-> stringify(m)]
       ELSE IF s.kind = "json"
       THEN LET parsed == Map(normalizeUniversity, s.data)
            IN [ret |-> clone(parsed), mem |-> parsed, slot |-> s]
       ELSE [ret |-> clone(seed), mem |-> seed, slot |-> stringify(seed)]

\* as readStoreOf, had the missing slot been left missing
readStoreOf_leavesAbsent(s, m) ==
    IF ~hasStorage
    THEN [ret |-> clone(m), mem |-> m, slot |-> s]
    ELSE IF s.kind = "absent"
    THEN [ret |-> clone(m), mem |-> m, slot |-> s]
    ELSE IF s.kind = "json"
    THEN LET parsed == Map(normalizeUniversity, s.data)
         IN [ret |-> clone(parsed), mem |-> parsed, slot |-> s]
    ELSE [ret |-> clone(m), mem |-> m, slot |-> stringify(m)]

readStoreOf(s, m) ==
    IF ~hasStorage
    THEN [ret |-> clone(m), mem |-> m, slot |-> s]
    ELSE IF s.kind = "absent"
    THEN [ret |-> clone(m), mem |-> m, slot |-> stringify(m)]
    ELSE IF s.kind = "json"
    THEN LET parsed == Map(normalizeUniversity, s.data)
         IN [ret |-> clone(parsed), mem |-> parsed, slot |-> s]
    ELSE [ret |-> clone(m), mem |-> m, slot |-> stringify(m)]

readStore == readStoreOf(slot, inMemoryStore)

(***************************************************************************)
(* writeStore(data) after a readStore that left the slot s.                *)
(***************************************************************************)
\* as writeStore, had the storage.setItem been left out
writeStore_memoryOnly(data, s) ==
    LET normalized == Map(normalizeUniversity, data)
    IN [mem |-> clone(normalized), slot |-> s]

writeStore(data, s) ==
    LET normalized == Map(normalizeUniversity, data)
    IN [mem |-> clone(normalized),
        slot |-> IF hasStorage THEN stringify(clone(normalized)) ELSE s]

(***************************************************************************)
(* filterUniversities                                                      *)
(***************************************************************************)
truthy(o, k) == k \in DOMAIN o /\ o[k] # <<>>

\* as matchesSearch, had the absent search been written `: false`
matchesSearch_requiresSearch(university, filters) ==
    IF truthy(filters, "search")
    THEN includes(toLowerCase(university["name"]), toLowerCase(filters["search"]))
    ELSE FALSE

matchesSearch(university, filters) ==
    IF truthy(filters, "search")
    THEN includes(toLowerCase(university["name"]), toLowerCase(filters["search"]))
    ELSE TRUE

\* as matchesLocation, had it matched a part of the location as search does
matchesLocation_substring(university, filters) ==
    IF truthy(filters, "location")
    THEN includes(toLowerCase(university["location"]), toLowerCase(filters["location"]))
    ELSE TRUE

matchesLocation(university, filters) ==
    IF truthy(filters, "location")
    THEN toLowerCase(university["location"]) = toLowerCase(filters["location"])
    ELSE TRUE

matchesDegree(university, filters) ==
    IF "degreeLevel" \in DOMAIN filters
    THEN /\ "programs" \in DOMAIN university
         /\ filters["degreeLevel"] \in DOMAIN university["programs"]
         /\ Len(university["programs"][filters["degreeLevel"]]) > 0
    ELSE TRUE

RECURSIVE filterSeq(_, _)
filterSeq(universities, filters) ==
    IF universities = <<>> THEN <<>>
    ELSE LET university == Head(universities)
             rest == filterSeq(Tail(universities), filters)
         IN IF /\ matchesSearch(university, filters)
               /\ matchesLocation(university, filters)
               /\ matchesDegree(university, filters)
            THEN <<university>> \o rest
            ELSE rest

filterUniversities(universities, fa) ==
    IF ~fa.given THEN universities ELSE filterSeq(universities, fa.f)

\* as findIndex, had a miss been clamped to the first record
findIndex_clamped(universities, id) ==
    IF \E i \in 1..Len(universities) : universities[i]["id"] = id
    THEN CHOOSE i \in 1..Len(universities) :
            /\ universities[i]["id"] = id
            /\ \A j \in 1..(i - 1) : universities[j]["id"] # id
    ELSE IF universities = <<>> THEN 0 ELSE 1

\* Array.prototype.findIndex on the id, 1-based, 0 when no record has it
findIndex(universities, id) ==
    IF \E i \in 1..Len(universities) : universities[i]["id"] = id
    THEN CHOOSE i \in 1..Len(universities) :
            /\ universities[i]["id"] = id
            /\ \A j \in 1..(i - 1) : universities[j]["id"] # id
    ELSE 0

\* nextId, when Date.now() would return t
nextId(t) ==
    IF hasCrypto THEN "uuid-" \o ToString(uuids + 1) ELSE "uni-" \o ToString(t)

(***************************************************************************)
(* createUniversity(payload), when Date.now() would return t: outcome,     *)
(* returned record, and the state left                                     *)
(***************************************************************************)
newUniversity(payload, t) ==
    [id |-> Get(payload, "id", nextId(t)),
     name |-> payload["name"],
     portalUrl |-> payload["portalUrl"],
     location |-> payload["location"],
     overview |-> Get(payload, "overview", <<>>),
     fees |-> Get(payload, "fees", NoFees),
     programs |-> Get(payload, "programs", emptyPrograms),
     scholarships |-> Get(payload, "scholarships", emptyScholarships),
     restrictedCountries |->
        normalizeRestrictedCountries(Get(payload, "restrictedCountries", <<>>))]

\* as createRejects, had it tested the fields for undefined only
createRejects_undefinedOnly(payload) ==
    \/ "name" \notin DOMAIN payload
    \/ "portalUrl" \notin DOMAIN payload
    \/ "location" \notin DOMAIN payload

createRejects(payload) ==
    ~truthy(payload, "name") \/ ~truthy(payload, "portalUrl") \/ ~truthy(payload, "location")

\* the call reaches nextId / Date.now()
callsNextId(payload) == ~createRejects(payload) /\ "id" \notin DOMAIN payload

createUniversity(payload, t) ==
    IF createRejects(payload)
    THEN [outcome |-> "ValidationError", ret |-> <<>>,
          mem |-> inMemoryStore, slot |-> slot, uuids |-> uuids, now |-> now]
    ELSE LET r == readStore
             new == newUniversity(payload, t)
             w == writeStore(Append(r.ret, new), r.slot)
         IN [outcome |-> "ok", ret |-> <<new>>,
             mem |-> w.mem, slot |-> w.slot,
             uuids |-> IF callsNextId(payload) /\ hasCrypto THEN uuids + 1 ELSE uuids,
             now |-> IF callsNextId(payload) /\ ~hasCrypto THEN t ELSE now]

(***************************************************************************)
(* updateUniversity(id, payload)                                           *)
(***************************************************************************)
\* as merged, had the id been spread before the payload
merged_payloadIdWins(existing, id, payload) ==
    normalizeUniversity(
        Spread(Spread(Spread(existing, [id |-> id]), payload),
               [restrictedCountries |->
                    IF "restrictedCountries" \in DOMAIN payload
                    THEN normalizeRestrictedCountries(payload["restrictedCountries"])
                    ELSE Get(existing, "restrictedCountries", <<>>)]))

\* as merged, had overview been defaulted as createUniversity defaults it
merged_defaultsOverview(existing, id, payload) ==
    normalizeUniversity(
        Spread(Spread(existing, Spread([overview |-> <<>>], payload)),
               [restrictedCountries |->
                    IF "restrictedCountries" \in DOMAIN payload
                    THEN normalizeRestrictedCountries(payload["restrictedCountries"])
                    ELSE Get(existing, "restrictedCountries", <<>>),
                id |-> id]))

merged(existing, id, payload) ==
    normalizeUniversity(
        Spread(Spread(existing, payload),
               [restrictedCountries |->
                    IF "restrictedCountries" \in DOMAIN payload
                    THEN normalizeRestrictedCountries(payload["restrictedCountries"])
                    ELSE Get(existing, "restrictedCountries", <<>>),
                id |-> id]))

updateUniversity(id, payload) ==
    LET r == readStore
        index == findIndex(r.ret, id)
    IN IF index = 0
       THEN [outcome |-> "NotFound", ret |-> <<>>,
             mem |-> r.mem, slot |-> r.slot, uuids |-> uuids, now |-> now]
       ELSE LET updated == merged(r.ret[index], id, payload)
                w == writeStore([r.ret EXCEPT ![index] = updated], r.slot)
            IN [outcome |-> "ok", ret |-> <<updated>>,
                mem |-> w.mem, slot |-> w.slot, uuids |-> uuids, now |-> now]

(***************************************************************************)
(* The calls of the adapter.  Each runs to its store write before its      *)
(* first await (the delay of the value it returns), so it is one step.     *)
(* Date.now() returns the value it returned last or a later one.  last     *)
(* keeps the call: its arguments, its outcome, the records it returned     *)
(* and the kind of slot content it was made on.                            *)
(***************************************************************************)
Call(op, id, payload, fa, outcome, ret) ==
    [op |-> op, id |-> id, payload |-> payload, filters |-> fa,
     outcome |-> outcome, ret |-> ret, caller |-> "page",
     slotWas |-> IF hasStorage THEN slot.kind ELSE "none"]

Env == <<hasStorage, hasCrypto>>

Clock(payload) ==
    IF callsNextId(payload) /\ ~hasCrypto THEN {now, now + 1} ELSE {now}

storedIds == {readStore.ret[i]["id"] : i \in 1..Len(readStore.ret)}

\* the state a call leaves, res being what createUniversity/updateUniversity gave
Leaves(res, m, s) ==
    /\ res.outcome = "ok" => writes < MaxWrites
    /\ writes' = IF res.outcome = "ok" THEN writes + 1 ELSE writes
    /\ inMemoryStore' = m
    /\ slot' = s
    /\ uuids' = res.uuids
    /\ now' = res.now
    /\ UNCHANGED <<Env, pending, Pages>>

GetUniversities ==
    \E fa \in FilterArgs :
        LET r == readStore
        IN /\ inMemoryStore' = r.mem
           /\ slot' = r.slot
           /\ last' = Call("getUniversities", "", EmptyObj, fa, "ok",
                           filterUniversities(r.ret, fa))
           /\ UNCHANGED <<Env, pending, Pages, now, uuids, writes>>

\* as GetUniversity, had the thrown error been swallowed into an empty result
GetUniversity_swallows ==
    \E id \in {"1", UnknownId} :
        LET r == readStore
            index == findIndex(r.ret, id)
        IN /\ inMemoryStore' = r.mem
           /\ slot' = r.slot
           /\ last' = IF index = 0
                      THEN Call("getUniversity", id, EmptyObj, NoFilters, "ok", <<>>)
                      ELSE Call("getUniversity", id, EmptyObj, NoFilters, "ok",
                                <<r.ret[index]>>)
           /\ UNCHANGED <<Env, pending, Pages, now, uuids, writes>>

GetUniversity ==
    \E id \in {"1", UnknownId} :
        LET r == readStore
            index == findIndex(r.ret, id)
        IN /\ inMemoryStore' = r.mem
           /\ slot' = r.slot
           /\ last' = IF index = 0
                      THEN Call("getUniversity", id, EmptyObj, NoFilters, "NotFound", <<>>)
                      ELSE Call("getUniversity", id, EmptyObj, NoFilters, "ok",
                                <<r.ret[index]>>)
           /\ UNCHANGED <<Env, pending, Pages, now, uuids, writes>>

CreateUniversity ==
    \E payload \in CreatePayloads :
        \E t \in Clock(payload) :
            LET c == createUniversity(payload, t)
            IN /\ Leaves(c, c.mem, c.slot)
               /\ last' = Call("createUniversity", "", payload, NoFilters,
                               c.outcome, c.ret)

UpdateUniversity ==
    \E id \in storedIds \cup {UnknownId}, payload \in UpdatePayloads :
        LET u == updateUniversity(id, payload)
        IN /\ Leaves(u, u.mem, u.slot)
           /\ last' = Call("updateUniversity", id, payload, NoFilters, u.outcome, u.ret)

(***************************************************************************)
(* AdminPage: sanitizePayload and handleSubmit.  The form is what the user *)
(* typed; when a record is selected the form carries its id (toEditable).  *)
(***************************************************************************)
NaN == 0 - 1

Forms ==
    { \* a name of blanks only, a program row left blank
      [name |-> <<" ">>, portalUrl |-> <<"p">>, location |-> <<"X">>,
       overview |-> <<>>, fees |-> [application |-> NaN, averageTuition |-> EmptyObj],
       programs |-> [emptyPrograms EXCEPT
                        !["bachelor"] = <<Program(<<" ">>), Program(<<"C">>)>>],
       scholarships |-> emptyScholarships],
      \* untrimmed but filled in
      [name |-> <<" ", "b">>, portalUrl |-> <<"p", " ">>, location |-> <<"x", "y">>,
       overview |-> <<"n", " ">>,
       fees |-> [application |-> 5, averageTuition |-> [l \in {"phd"} |-> NaN]],
       programs |-> emptyPrograms,
       scholarships |-> [emptyScholarships EXCEPT
                            !["phd"] = <<Scholarship(<<>>), Scholarship(<<"S">>)>>]],
      \* location left empty
      [name |-> <<"b">>, portalUrl |-> <<"p">>, location |-> <<>>,
       overview |-> <<>>, fees |-> NoFees,
       programs |-> emptyPrograms, scholarships |-> emptyScholarships] }

\* as hasName, had the name been tested without the trim
hasName_untrimmed(entry) == entry["name"] # <<>>

hasName(entry) == trim(entry["name"]) # <<>>

sanitizePayload(formState) ==
    LET cleanPrograms ==
            [level \in DegreeLevel |-> SelectSeq(formState["programs"][level], hasName)]
        cleanScholarships ==
            [level \in DegreeLevel |-> SelectSeq(formState["scholarships"][level], hasName)]
        tuition == formState["fees"]["averageTuition"]
        averageTuition ==
            [level \in {l \in DOMAIN tuition : tuition[l] # NaN} |-> tuition[level]]
        application == formState["fees"]["application"]
    IN Spread(formState,
              [name |-> trim(formState["name"]),
               portalUrl |-> trim(formState["portalUrl"]),
               location |-> trim(formState["location"]),
               overview |-> trim(formState["overview"]),
               fees |-> [application |-> IF application = NaN THEN 0 ELSE application,
                         averageTuition |-> averageTuition],
               programs |-> cleanPrograms,
               scholarships |-> cleanScholarships])

formRejects(formState) ==
    ~truthy(formState, "name") \/ ~truthy(formState, "portalUrl")
        \/ ~truthy(formState, "location")

HandleSubmit ==
    \E selectedId \in {"new"} \cup storedIds, form \in Forms :
        LET formState == IF selectedId = "new" THEN form
                         ELSE Spread(form, [id |-> selectedId])
            payload == sanitizePayload(formState)
        IN IF formRejects(formState)
           THEN /\ last' = [Call("handleSubmit", selectedId, formState, NoFilters,
                                 "FormInvalid", <<>>) EXCEPT !.caller = "handleSubmit"]
                /\ UNCHANGED <<Env, pending, Pages, now, uuids, writes, slot, inMemoryStore>>
           ELSE \E t \in IF selectedId = "new" THEN Clock(payload) ELSE {now} :
                LET saved == IF selectedId = "new" THEN createUniversity(payload, t)
                             ELSE updateUniversity(selectedId, payload)
                    \* await loadUniversities(), reached when the save did not throw
                    loaded == readStoreOf(saved.slot, saved.mem)
                IN /\ IF saved.outcome = "ok"
                      THEN Leaves(saved, loaded.mem, loaded.slot)
                      ELSE Leaves(saved, saved.mem, saved.slot)
                   /\ last' = [Call(IF selectedId = "new" THEN "createUniversity"
                                    ELSE "updateUniversity",
                                    IF selectedId = "new" THEN "" ELSE selectedId,
                                    payload, NoFilters, saved.outcome, saved.ret)
                               EXCEPT !.caller = "handleSubmit"]

(***************************************************************************)
(* The environment: something outside the adapter leaves text in the slot  *)
(* that does not parse.                                                    *)
(***************************************************************************)
CorruptSlot ==
    /\ hasStorage
    /\ slot.kind # "corrupt"
    /\ writes < MaxWrites
    /\ writes' = writes + 1
    /\ slot' = Corrupt
    /\ last' = Call("corrupt", "", EmptyObj, NoFilters, "ok", <<>>)
    /\ UNCHANGED <<Env, pending, Pages, now, uuids, inMemoryStore>>

Init ==
    /\ hasStorage \in BOOLEAN
    /\ hasCrypto \in BOOLEAN
    /\ now = 0
    /\ uuids = 0
    /\ writes = 0
    /\ slot \in IF hasStorage THEN {Absent, stringify(LegacySlot)} ELSE {Absent}
    /\ inMemoryStore = clone(Map(normalizeUniversity, seedUniversities))
    /\ last = Call("init", "", EmptyObj, NoFilters, "ok", <<>>)
    /\ pending = <<>>
    /\ page = EmptyObj
    /\ admin = EmptyObj
    /\ net = EmptyObj

Next ==
    \/ GetUniversities
    \/ GetUniversity
    \/ CreateUniversity
    \/ UpdateUniversity
    \/ HandleSubmit
    \/ CorruptSlot

Spec == Init /\ [][Next]_vars

(***************************************************************************)
(* getUniversities(filters) over every short collection of a few records   *)
(* and every filter object built from a few values.                        *)
(***************************************************************************)
MaxLen == 2         \* longest collection filtered

FilterRecords ==
    { [id |-> "1", name |-> <<"A", "b">>, portalUrl |-> <<"p">>, location |-> <<"X">>,
       fees |-> NoFees,
       programs |-> [emptyPrograms EXCEPT !["bachelor"] = <<Program(<<"C">>)>>],
       scholarships |-> emptyScholarships],
      [id |-> "2", name |-> <<"b">>, portalUrl |-> <<"p">>, location |-> <<"x", "y">>,
       fees |-> NoFees,
       programs |-> [l \in {"phd"} |-> <<Program(<<"C">>)>>],
       scholarships |-> emptyScholarships],
      [id |-> "3", name |-> <<"B", "a">>, portalUrl |-> <<"p">>, location |-> <<"x">>,
       fees |-> NoFees, scholarships |-> emptyScholarships] }

RECURSIVE SeqsUpTo(_, _)
SeqsUpTo(S, n) ==
    IF n = 0 THEN {<<>>}
    ELSE LET shorter == SeqsUpTo(S, n - 1)
         IN shorter \cup {Append(q, x) : q \in shorter, x \in S}

FilterKeys == {"search", "location", "degreeLevel"}

FullFilters ==
    [search : {<<>>, <<"a">>, <<"B">>},
     location : {<<>>, <<"x">>, <<"X", "Y">>},
     degreeLevel : DegreeLevel]

AllFilterArgs ==
    {NoFilters} \cup
    {[given |-> TRUE, f |-> [k \in K |-> full[k]]] :
        K \in SUBSET FilterKeys, full \in FullFilters}

InitFilter ==
    /\ hasStorage = TRUE
    /\ hasCrypto = TRUE
    /\ now = 0
    /\ uuids = 0
    /\ writes = 0
    /\ slot \in {stringify(q) : q \in SeqsUpTo(FilterRecords, MaxLen)}
    /\ inMemoryStore = clone(Map(normalizeUniversity, seedUniversities))
    /\ last = Call("init", "", EmptyObj, NoFilters, "ok", <<>>)
    /\ pending = <<>>
    /\ page = EmptyObj
    /\ admin = EmptyObj
    /\ net = EmptyObj

GetUniversitiesAny ==
    \E fa \in AllFilterArgs :
        LET r == readStore
        IN /\ inMemoryStore' = r.mem
           /\ slot' = r.slot
           /\ last' = Call("getUniversities", "", EmptyObj, fa, "ok",
                           filterUniversities(r.ret, fa))
           /\ UNCHANGED <<Env, pending, Pages, now, uuids, writes>>

NextFilter == GetUniversitiesAny

SpecFilter == InitFilter /\ [][NextFilter]_vars


(***************************************************************************)
(* The load effects of UniversitiesPage (deps [filters]) and of            *)
(* UniversityDetailPage (deps [id, navigate]).  Each run of the effect has *)
(* its own keep flag, which its cleanup clears; the adapter call it awaits *)
(* resolves or rejects later, in any order with the other runs' calls.     *)
(* page.loads[n] is the n-th run: the dep it was started for, its keep     *)
(* flag and whether its call is pending, resolved or rejected.  The data   *)
(* a call answers with is tagged by the dep it was called for.             *)
(* page.appliedBy is the run whose result was applied last.                *)
(***************************************************************************)
MaxLoads == 3       \* runs of the load effect in the life of a page

Deps == {"a", "b"}

NoId == "none"      \* useParams() gave no id

Store == <<hasStorage, hasCrypto, now, uuids, writes, slot, inMemoryStore, last>>

StoreIdle ==
    /\ hasStorage = TRUE
    /\ hasCrypto = TRUE
    /\ now = 0
    /\ uuids = 0
    /\ writes = 0
    /\ slot = Absent
    /\ inMemoryStore = clone(Map(normalizeUniversity, seedUniversities))
    /\ last = Call("init", "", EmptyObj, NoFilters, "ok", <<>>)

\* the body of load() up to its await
startLoad(p, dep) ==
    [p EXCEPT !.dep = dep,
              !.started = p.started + 1,
              !.loads = Append(p.loads, [dep |-> dep, keep |-> TRUE, state |-> "pending"]),
              !.isLoading = TRUE,
              !.error = IF p.kind = "list" THEN <<>> ELSE p.error]

\* the cleanup the latest run of the effect returned: keep = false
cleanup(p) ==
    IF p.started = 0 \/ p.dep = NoId THEN p
    ELSE [p EXCEPT !.loads[p.started].keep = FALSE]

\* as settle, without the keep test around the setters
settle_unguarded(p, n, ok) ==
    LET run == p.loads[n]
        q == [p EXCEPT !.loads[n].state = IF ok THEN "resolved" ELSE "rejected"]
    IN IF ok
       THEN [q EXCEPT !.data = IF run.keep THEN <<run.dep>> ELSE p.data,
                      !.appliedBy = IF run.keep THEN n ELSE p.appliedBy,
                      !.isLoading = FALSE]
       ELSE [q EXCEPT !.error = IF run.keep THEN <<run.dep>> ELSE p.error,
                      !.appliedBy = IF run.keep THEN n ELSE p.appliedBy,
                      !.isLoading = FALSE]

\* the rest of load() once the awaited call of run n settles
settle(p, n, ok) ==
    LET run == p.loads[n]
        q == [p EXCEPT !.loads[n].state = IF ok THEN "resolved" ELSE "rejected"]
    IN IF ~run.keep THEN q
       ELSE IF ok
       THEN [q EXCEPT !.data = <<run.dep>>, !.appliedBy = n, !.isLoading = FALSE]
       ELSE [q EXCEPT !.error = <<run.dep>>, !.appliedBy = n, !.isLoading = FALSE]

InitLoad ==
    /\ StoreIdle
    /\ pending = <<>>
    /\ admin = EmptyObj
    /\ net = EmptyObj
    /\ \E kind \in {"list", "detail"}, dep \in Deps :
        page = startLoad([kind |-> kind, mounted |-> TRUE, dep |-> NoId, started |-> 0,
                          loads |-> <<>>, data |-> <<>>, error |-> <<>>,
                          isLoading |-> TRUE, appliedBy |-> 0], dep)

\* setFilters(next) / a route change to another id: cleanup, then the effect again
ChangeDep ==
    /\ page.mounted
    /\ page.started < MaxLoads
    /\ \E dep \in Deps :
        /\ page.kind = "detail" => dep # page.dep
        /\ page' = startLoad(cleanup(page), dep)
    /\ UNCHANGED <<Store, pending, admin, net>>

\* the detail route without an id: cleanup, navigate('/') and return
RouteWithoutId ==
    /\ page.mounted
    /\ page.kind = "detail"
    /\ page' = [cleanup(page) EXCEPT !.dep = NoId, !.mounted = FALSE]
    /\ UNCHANGED <<Store, pending, admin, net>>

Unmount ==
    /\ page.mounted
    /\ page' = [cleanup(page) EXCEPT !.mounted = FALSE]
    /\ UNCHANGED <<Store, pending, admin, net>>

Settle ==
    /\ \E n \in 1..page.started, ok \in BOOLEAN :
        /\ page.loads[n].state = "pending"
        /\ page' = settle(page, n, ok)
    /\ UNCHANGED <<Store, pending, admin, net>>

NextLoad ==
    \/ ChangeDep
    \/ RouteWithoutId
    \/ Unmount
    \/ Settle

SpecLoad == InitLoad /\ [][NextLoad]_vars

(***************************************************************************)
(* Local createUniversity/updateUniversity calls issued without awaiting   *)
(* one another.  A call runs its whole body, the store write included,     *)
(* when it is issued; what is left in flight is delay(value), a timer that *)
(* resolves the promise.  pending[n] is the n-th call issued: what it      *)
(* was called with, what it settles with, the store its body left and      *)
(* whether its timer has fired; the timers fire in any order.              *)
(***************************************************************************)
MaxCalls == 2       \* calls issued

FlightUpdates == UpdatePayloads \cup {[overview |-> <<"m">>]}

InFlight(op, id, payload, res) ==
    [op |-> op, id |-> id, payload |-> payload, outcome |-> res.outcome,
     ret |-> res.ret, mem |-> res.mem, slot |-> res.slot, settled |-> FALSE]

\* as resolved, had the store write been made by the timer
resolved_writes(call, m, s) == [mem |-> call.mem, slot |-> call.slot]

\* the store after the timer of delay(value) fired: setTimeout(() => resolve(value))
resolved(call, m, s) == [mem |-> m, slot |-> s]

InitFlight ==
    /\ hasStorage \in BOOLEAN
    /\ hasCrypto \in BOOLEAN
    /\ now = 0
    /\ uuids = 0
    /\ writes = 0
    /\ slot = Absent
    /\ inMemoryStore = clone(Map(normalizeUniversity, seedUniversities))
    /\ last = Call("init", "", EmptyObj, NoFilters, "ok", <<>>)
    /\ pending = <<>>
    /\ page = EmptyObj
    /\ admin = EmptyObj
    /\ net = EmptyObj

IssueCreate ==
    /\ Len(pending) < MaxCalls
    /\ \E payload \in CreatePayloads : \E t \in Clock(payload) :
        LET res == createUniversity(payload, t)
        IN /\ writes' = IF res.outcome = "ok" THEN writes + 1 ELSE writes
           /\ inMemoryStore' = res.mem
           /\ slot' = res.slot
           /\ uuids' = res.uuids
           /\ now' = res.now
           /\ pending' = Append(pending, InFlight("createUniversity", "", payload, res))
           /\ last' = Call("createUniversity", "", payload, NoFilters, res.outcome, res.ret)
    /\ UNCHANGED <<Env, Pages>>

IssueUpdate ==
    /\ Len(pending) < MaxCalls
    /\ \E id \in storedIds \cup {UnknownId}, payload \in FlightUpdates :
        LET res == updateUniversity(id, payload)
        IN /\ writes' = IF res.outcome = "ok" THEN writes + 1 ELSE writes
           /\ inMemoryStore' = res.mem
           /\ slot' = res.slot
           /\ pending' = Append(pending, InFlight("updateUniversity", id, payload, res))
           /\ last' = Call("updateUniversity", id, payload, NoFilters, res.outcome, res.ret)
    /\ UNCHANGED <<Env, Pages, now, uuids>>

Resolve ==
    /\ \E n \in 1..Len(pending) :
        /\ ~pending[n].settled
        /\ inMemoryStore' = resolved(pending[n], inMemoryStore, slot).mem
        /\ slot' = resolved(pending[n], inMemoryStore, slot).slot
        /\ pending' = [pending EXCEPT ![n].settled = TRUE]
        /\ last' = [op |-> "resolve", id |-> pending[n].id, payload |-> pending[n].payload,
                    filters |-> NoFilters, outcome |-> pending[n].outcome,
                    ret |-> pending[n].ret, caller |-> "timer",
                    slotWas |-> IF hasStorage THEN slot.kind ELSE "none"]
    /\ UNCHANGED <<Env, Pages, now, uuids, writes>>

NextFlight ==
    \/ IssueCreate
    \/ IssueUpdate
    \/ Resolve

SpecFlight == InitFlight /\ [][NextFlight]_vars

(***************************************************************************)
(* normalizeUniversity on its own: it is applied to a record, with or      *)
(* without a restrictedCountries list, and then to what it returned.  last.payload is the argument of the          *)
(* application, last.ret[1] its result.                                    *)
(***************************************************************************)
MaxCountries == 2   \* entries of a restrictedCountries list

Countries ==
    { <<>>, <<" ">>, <<"U">>, <<" ", "U">>, <<"U", " ">>, <<"U", " ", "V">>,
      <<" ", "U", " ", " ">> }

NormalizeInputs ==
    LET bases == { [id |-> "1", name |-> <<" ", "b">>],
                   [id |-> "2", name |-> <<"b">>, programs |-> emptyPrograms] }
    IN bases \cup
       { Spread(b, [restrictedCountries |-> rc]) :
            b \in bases, rc \in SeqsUpTo(Countries, MaxCountries) }

InitNormalize ==
    /\ hasStorage = TRUE
    /\ hasCrypto = TRUE
    /\ now = 0
    /\ uuids = 0
    /\ writes = 0
    /\ slot = Absent
    /\ inMemoryStore = clone(Map(normalizeUniversity, seedUniversities))
    /\ \E x \in NormalizeInputs :
        last = [Call("input", "", x, NoFilters, "ok", <<x>>) EXCEPT !.caller = "none"]
    /\ pending = <<>>
    /\ page = EmptyObj
    /\ admin = EmptyObj
    /\ net = EmptyObj

Normalize ==
    /\ last.op \in {"input", "normalizeUniversity"}
    /\ last' = [Call("normalizeUniversity", "", last.ret[1], NoFilters, "ok",
                     <<normalizeUniversity(last.ret[1])>>) EXCEPT !.caller = "none"]
    /\ UNCHANGED <<Env, now, uuids, writes, slot, inMemoryStore, pending, Pages>>

NextNormalize ==
    \/ Normalize

SpecNormalize == InitNormalize /\ [][NextNormalize]_vars

(***************************************************************************)
(* sanitizePayload as handleSubmit uses it: admin.formState is the form    *)
(* the user filled in, with program and scholarship rows whose names are   *)
(* empty, blank or filled; a submit that passes the required-field check   *)
(* builds the payload it hands to createUniversity/updateUniversity, which *)
(* last.payload records.                                                   *)
(***************************************************************************)
MaxRows == 2        \* rows of one degree level in the form

RowNames == { <<>>, <<" ">>, <<"C">>, <<" ", "D">> }

ProgramRows == SeqsUpTo({Program(n) : n \in RowNames}, MaxRows)

ScholarshipRows == SeqsUpTo({Scholarship(n) : n \in RowNames}, MaxRows)

SanitizeForms ==
    { [name |-> <<" ", "b">>, portalUrl |-> <<"p">>, location |-> <<"X">>,
       overview |-> <<>>, fees |-> NoFees,
       programs |-> [emptyPrograms EXCEPT !["bachelor"] = ps],
       scholarships |-> [emptyScholarships EXCEPT !["masters"] = ss]] :
         ps \in ProgramRows, ss \in ScholarshipRows }
    \cup
    { [name |-> <<>>, portalUrl |-> <<"p">>, location |-> <<"X">>,
       overview |-> <<>>, fees |-> NoFees,
       programs |-> emptyPrograms, scholarships |-> emptyScholarships] }

InitSanitize ==
    /\ StoreIdle
    /\ pending = <<>>
    /\ page = EmptyObj
    /\ net = EmptyObj
    /\ \E form \in SanitizeForms : admin = [formState |-> form]

\* handleSubmit up to the adapter call it makes
SubmitPayload ==
    /\ last.op = "init"
    /\ last' = IF formRejects(admin.formState)
               THEN [Call("handleSubmit", "new", admin.formState, NoFilters,
                          "FormInvalid", <<>>) EXCEPT !.caller = "handleSubmit"]
               ELSE [Call("createUniversity", "", sanitizePayload(admin.formState),
                          NoFilters, "called", <<>>) EXCEPT !.caller = "handleSubmit"]
    /\ UNCHANGED <<Env, now, uuids, writes, slot, inMemoryStore, pending, Pages>>

NextSanitize ==
    \/ SubmitPayload

SpecSanitize == InitSanitize /\ [][NextSanitize]_vars

(***************************************************************************)
(* The remote universityService.  An operation builds its URL and calls    *)
(* fetch before its first await; the response arrives later, in any order  *)
(* with those of the other operations in flight, or fetch fails for want   *)
(* of a connection; on a success status the operation awaits               *)
(* response.json().  net[n] is the n-th operation called: its request,     *)
(* the number of times it called fetch, where it stands, the status it     *)
(* received, the message of the error it rejected with and whether it      *)
(* asked for the body.  API_BASE is taken to be an absolute URL.           *)
(***************************************************************************)
MaxRequests == 2    \* remote operations called

RemoteFilterArgs == FilterArgs \cup {[given |-> TRUE, f |-> [search |-> <<" ">>]]}

\* sanitizeFilters: undefined for no filters, else the entries that are not blank
sanitizeFilters(fa) ==
    IF ~fa.given THEN fa
    ELSE [given |-> TRUE,
          f |-> [k \in {key \in DOMAIN fa.f :
                            IF key = "degreeLevel" THEN fa.f[key] # ""
                            ELSE trim(fa.f[key]) # <<>>} |-> fa.f[k]]]

\* buildUrl: the path and the search parameters appended, the truthy ones
buildUrl(path, params) ==
    [path |-> path,
     search |-> IF ~params.given THEN EmptyObj
                ELSE [k \in {key \in DOMAIN params.f :
                                IF key = "degreeLevel" THEN params.f[key] # ""
                                ELSE params.f[key] # <<>>}
                        |-> params.f[k]]]

\* the message of the Error an operation throws on !response.ok
failure(op) ==
    CASE op = "getUniversities" -> "Unable to fetch universities"
      [] op = "getUniversity" -> "Unable to fetch university details"
      [] op = "createUniversity" -> "Unable to create university"
      [] op = "updateUniversity" -> "Unable to update university"

\* the operation up to its await fetch(...)
fetching(op, method, url, body) ==
    [op |-> op, request |-> [method |-> method, url |-> url, body |-> body],
     fetches |-> 1, pc |-> "awaiting", status |-> "none", error |-> "", parsed |-> FALSE]

\* as received, had a failed request been sent once more
received_retries(c, ok) ==
    IF ok THEN [c EXCEPT !.pc = "parsing", !.status = "ok", !.parsed = TRUE]
    ELSE IF c.fetches < 2 THEN [c EXCEPT !.fetches = c.fetches + 1]
    ELSE [c EXCEPT !.pc = "rejected", !.status = "failed", !.error = failure(c.op)]

\* the operation from the response to its next await or its throw
received(c, ok) ==
    IF ok THEN [c EXCEPT !.pc = "parsing", !.status = "ok", !.parsed = TRUE]
    ELSE [c EXCEPT !.pc = "rejected", !.status = "failed", !.error = failure(c.op)]

InitRemote ==
    /\ StoreIdle
    /\ pending = <<>>
    /\ page = EmptyObj
    /\ admin = EmptyObj
    /\ net = <<>>

RemoteGetUniversities ==
    /\ Len(net) < MaxRequests
    /\ \E fa \in RemoteFilterArgs :
        net' = Append(net, fetching("getUniversities", "GET",
                                    buildUrl(<<"universities">>, sanitizeFilters(fa)),
                                    EmptyObj))
    /\ UNCHANGED <<Store, pending, page, admin>>

RemoteGetUniversity ==
    /\ Len(net) < MaxRequests
    /\ \E id \in {"1", UnknownId} :
        net' = Append(net, fetching("getUniversity", "GET",
                                    buildUrl(<<"universities", id>>, NoFilters), EmptyObj))
    /\ UNCHANGED <<Store, pending, page, admin>>

RemoteCreateUniversity ==
    /\ Len(net) < MaxRequests
    /\ \E payload \in CreatePayloads :
        net' = Append(net, fetching("createUniversity", "POST",
                                    buildUrl(<<"universities">>, NoFilters),
                                    stringify(payload)))
    /\ UNCHANGED <<Store, pending, page, admin>>

RemoteUpdateUniversity ==
    /\ Len(net) < MaxRequests
    /\ \E id \in {"1", UnknownId}, payload \in UpdatePayloads :
        net' = Append(net, fetching("updateUniversity", "PUT",
                                    buildUrl(<<"universities", id>>, NoFilters),
                                    stringify(payload)))
    /\ UNCHANGED <<Store, pending, page, admin>>

\* the response arrives, with a success status or another
Response ==
    /\ \E n \in 1..Len(net), ok \in BOOLEAN :
        /\ net[n].pc = "awaiting"
        /\ net' = [net EXCEPT ![n] = received(net[n], ok)]
    /\ UNCHANGED <<Store, pending, page, admin>>

\* fetch rejects: no response
NoResponse ==
    /\ \E n \in 1..Len(net) :
        /\ net[n].pc = "awaiting"
        /\ net' = [net EXCEPT ![n].pc = "rejected", ![n].status = "unreachable",
                              ![n].error = "TypeError"]
    /\ UNCHANGED <<Store, pending, page, admin>>

\* response.json() settles: the body parsed or did not
Json ==
    /\ \E n \in 1..Len(net), parses \in BOOLEAN :
        /\ net[n].pc = "parsing"
        /\ net' = [net EXCEPT ![n].pc = IF parses THEN "fulfilled" ELSE "rejected",
                              ![n].error = IF parses THEN "" ELSE "SyntaxError"]
    /\ UNCHANGED <<Store, pending, page, admin>>

NextRemote ==
    \/ RemoteGetUniversities
    \/ RemoteGetUniversity
    \/ RemoteCreateUniversity
    \/ RemoteUpdateUniversity
    \/ Response
    \/ NoResponse
    \/ Json

SpecRemote == InitRemote /\ [][NextRemote]_vars

(***************************************************************************)
(* AdminPage.handleSubmit step by step.  admin holds the state of the      *)
(* component (selectedId, formState, isSaving, status) and where the       *)
(* submit stands: at the await of the save, at the await of                *)
(* loadUniversities(), or done.  The save is the local adapter's           *)
(* createUniversity/updateUniversity, or fails as a remote request does;   *)
(* the getUniversities of loadUniversities resolves or rejects.            *)
(* admin.checked, admin.save and admin.calls record whether the last       *)
(* submit passed the required-field check, what became of its save, and    *)
(* how many adapter operations the page has called.  The submit button is  *)
(* disabled while isSaving.                                                *)
(***************************************************************************)
MaxSubmits == 2     \* submits of the form

NoStatus == <<>>

Status(type, message) == <<[type |-> type, message |-> message]>>

toEditable(university) ==
    Spread(university,
           [overview |-> Get(university, "overview", <<>>),
            fees |-> [application |-> Get(Get(university, "fees", EmptyObj), "application", 0),
                      averageTuition |->
                          Get(Get(university, "fees", EmptyObj), "averageTuition", EmptyObj)],
            programs |-> [level \in DegreeLevel |->
                            Get(Get(university, "programs", EmptyObj), level, <<>>)],
            scholarships |-> [level \in DegreeLevel |->
                            Get(Get(university, "scholarships", EmptyObj), level, <<>>)]])

\* the required-field branch: setStatus(error); return
refused(a, formState, selectedId) ==
    [a EXCEPT !.selectedId = selectedId, !.formState = formState,
              !.status = Status("error", "required"), !.checked = "failed",
              !.save = "none", !.pc = "done", !.submits = a.submits + 1]

\* setIsSaving(true); setStatus(null); the save called
saving(a, formState, selectedId, outcome, ret) ==
    [a EXCEPT !.selectedId = selectedId, !.formState = formState,
              !.isSaving = TRUE, !.status = NoStatus, !.checked = "passed",
              !.save = outcome, !.saved = ret, !.calls = a.calls + 1,
              !.pc = "saving", !.submits = a.submits + 1]

\* as caught, had setIsSaving(false) followed the try, not stood in a finally
caught_noFinally(a) ==
    [a EXCEPT !.status = Status("error", a.save), !.pc = "done"]

\* catch (err) { setStatus(error) } finally { setIsSaving(false) }
caught(a) ==
    [a EXCEPT !.status = Status("error", a.save), !.isSaving = FALSE, !.pc = "done"]

\* the rest of the try block once loadUniversities() returned, and the finally
finished(a) ==
    [a EXCEPT !.selectedId = a.saved[1]["id"],
              !.formState = toEditable(a.saved[1]),
              !.status = Status("success",
                                IF a.selectedId = "new" THEN "added" ELSE "updated"),
              !.isSaving = FALSE, !.pc = "done"]

\* the page mounted: the effect called loadUniversities(), whose
\* getUniversities() has read the store and is awaited
InitAdmin ==
    /\ hasStorage = TRUE
    /\ hasCrypto = TRUE
    /\ now = 0
    /\ uuids = 0
    /\ writes = 0
    /\ slot = readStoreOf(Absent, clone(Map(normalizeUniversity, seedUniversities))).slot
    /\ inMemoryStore = clone(Map(normalizeUniversity, seedUniversities))
    /\ last = Call("init", "", EmptyObj, NoFilters, "ok", <<>>)
    /\ pending = <<>>
    /\ page = EmptyObj
    /\ net = EmptyObj
    /\ admin = [selectedId |-> "new", formState |-> EmptyObj, isSaving |-> FALSE,
                status |-> NoStatus, pc |-> "idle", checked |-> "none",
                save |-> "none", saved |-> <<>>, calls |-> 1, submits |-> 0,
                mount |-> "loading"]

\* the loadUniversities() of the mount effect returns
MountLoadSettles ==
    /\ admin.mount = "loading"
    /\ \E loaded \in BOOLEAN :
        admin' = [admin EXCEPT !.mount = "loaded",
                               !.status = IF loaded THEN admin.status
                                          ELSE Status("error", "load")]
    /\ UNCHANGED <<Store, pending, page, net>>

\* handleSubmit up to its first await
Submit ==
    /\ ~admin.isSaving
    /\ admin.pc \in {"idle", "done"}
    /\ admin.submits < MaxSubmits
    /\ \E selectedId \in {"new"} \cup storedIds, form \in Forms, reachable \in BOOLEAN :
        LET formState == IF selectedId = "new" THEN form
                         ELSE Spread(form, [id |-> selectedId])
            payload == sanitizePayload(formState)
            res == IF selectedId = "new" THEN createUniversity(payload, now)
                   ELSE updateUniversity(selectedId, payload)
        IN IF formRejects(formState)
           THEN /\ admin' = refused(admin, formState, selectedId)
                /\ UNCHANGED <<Store, pending, page, net>>
           ELSE IF ~reachable
           THEN /\ admin' = saving(admin, formState, selectedId, "RequestFailed", <<>>)
                /\ UNCHANGED <<Store, pending, page, net>>
           ELSE /\ admin' = saving(admin, formState, selectedId, res.outcome, res.ret)
                /\ inMemoryStore' = res.mem
                /\ slot' = res.slot
                /\ uuids' = res.uuids
                /\ writes' = IF res.outcome = "ok" THEN writes + 1 ELSE writes
                /\ UNCHANGED <<Env, now, last, pending, page, net>>

\* the save settles: on to await loadUniversities(), or to the catch block
SaveSettles ==
    /\ admin.pc = "saving"
    /\ IF admin.save = "ok"
       THEN /\ admin' = [admin EXCEPT !.pc = "loading", !.calls = admin.calls + 1]
            /\ inMemoryStore' = readStore.mem
            /\ slot' = readStore.slot
            /\ UNCHANGED <<Env, now, uuids, writes, last, pending, page, net>>
       ELSE /\ admin' = caught(admin)
            /\ UNCHANGED <<Store, pending, page, net>>

\* loadUniversities() returns, its own catch having set an error status if
\* getUniversities rejected; the try block runs to its end
LoadSettles ==
    /\ admin.pc = "loading"
    /\ \E loaded \in BOOLEAN :
        admin' = finished(IF loaded THEN admin
                            ELSE [admin EXCEPT !.status = Status("error", "load")])
    /\ UNCHANGED <<Store, pending, page, net>>

NextAdmin ==
    \/ MountLoadSettles
    \/ Submit
    \/ SaveSettles
    \/ LoadSettles

SpecAdmin ==
    /\ InitAdmin
    /\ [][NextAdmin]_vars
    /\ WF_vars(SaveSettles)
    /\ WF_vars(LoadSettles)

(***************************************************************************)
(* What the properties below read off a state.                             *)
(***************************************************************************)
\* the collection getUniversities() without filters would return
ViewOf(s, m) == readStoreOf(s, m).ret

View == ViewOf(slot, inMemoryStore)

IdsOf(universities) == {universities[i]["id"] : i \in 1..Len(universities)}

Reads == {"getUniversities", "getUniversity"}

hasAllLevels(uni, field) ==
    field \in DOMAIN uni /\ DegreeLevel \subseteq DOMAIN uni[field]

noBlankNoDuplicate(list) ==
    /\ \A i \in 1..Len(list) : trim(list[i]) # <<>>
    /\ \A i, j \in 1..Len(list) : list[i] = list[j] => i = j

seedStore == Map(normalizeUniversity, seedUniversities)

(***************************************************************************)
(* C1.  Every record a getUniversities or getUniversity call returns has   *)
(* programs and scholarships mappings with all three degree levels.        *)
(***************************************************************************)
C1_TotalKeys ==
    (last.op \in Reads /\ last.outcome = "ok") =>
        \A i \in 1..Len(last.ret) :
            hasAllLevels(last.ret[i], "programs")
                /\ hasAllLevels(last.ret[i], "scholarships")

(***************************************************************************)
(* C2.  A successful updateUniversity(id, payload) returns a record whose  *)
(* id is the id argument, leaves a record with that id at the position it  *)
(* updated, and leaves the set of ids of the collection as it was, also    *)
(* when the payload carries another id.                                    *)
(***************************************************************************)
C2_IdPinned ==
    [][ (last'.op = "updateUniversity" /\ last'.outcome = "ok") =>
            LET before == View
                after == ViewOf(slot', inMemoryStore')
                index == findIndex(before, last'.id)
            IN /\ index > 0
               /\ last'.ret[1]["id"] = last'.id
               /\ Len(after) = Len(before)
               /\ after[index]["id"] = last'.id
               /\ after[index] = last'.ret[1]
               /\ IdsOf(after) = IdsOf(before) ]_vars

C2_Witness ==
    /\ last.op = "updateUniversity"
    /\ last.outcome = "ok"
    /\ "id" \in DOMAIN last.payload
    /\ last.payload["id"] # last.id
    /\ last.payload["id"] \notin IdsOf(View)

(***************************************************************************)
(* C3.  A successful updateUniversity is a shallow merge: every top-level  *)
(* field of the existing record that the payload does not name keeps its   *)
(* value in the stored and in the returned record, every other record of   *)
(* the collection is unchanged, and so are its length and order.           *)
(***************************************************************************)
C3_ShallowMerge ==
    [][ (last'.op = "updateUniversity" /\ last'.outcome = "ok") =>
            LET before == View
                after == ViewOf(slot', inMemoryStore')
                index == findIndex(before, last'.id)
                kept == (DOMAIN before[index]) \ (DOMAIN last'.payload)
            IN /\ Len(after) = Len(before)
               /\ \A i \in 1..Len(before) : i # index => after[i] = before[i]
               /\ \A k \in kept :
                    /\ k \in DOMAIN after[index]
                    /\ after[index][k] = before[index][k]
                    /\ k \in DOMAIN last'.ret[1]
                    /\ last'.ret[1][k] = before[index][k] ]_vars

C3_Witness ==
    /\ last.op = "updateUniversity"
    /\ last.outcome = "ok"
    /\ DOMAIN last.payload = {"overview"}
    /\ Len(View) = 2
    /\ last.id = View[2]["id"]
    /\ last.ret[1]["restrictedCountries"] # <<>>

(***************************************************************************)
(* C4.  updateUniversity on an id no stored record has fails with          *)
(* not-found, and getUniversities() returns the same list after it as      *)
(* before it.                                                              *)
(***************************************************************************)
C4_UnknownIdUpdate ==
    [][ (last'.op = "updateUniversity" /\ last'.id \notin IdsOf(View)) =>
            /\ last'.outcome = "NotFound"
            /\ ViewOf(slot', inMemoryStore') = View ]_vars

C4_Witness ==
    /\ last.op = "updateUniversity"
    /\ last.outcome = "NotFound"
    /\ last.id \notin IdsOf(View)
    /\ Len(View) = 2

(***************************************************************************)
(* C5.  createUniversity fails with a validation error whenever name,      *)
(* portalUrl or location is missing or empty in the payload, and then      *)
(* neither the in-memory collection nor the persisted slot changes.        *)
(***************************************************************************)
missingOrEmpty(payload, field) ==
    field \notin DOMAIN payload \/ Len(payload[field]) = 0

C5_CreateValidates ==
    [][ (/\ last'.op = "createUniversity"
         /\ \E field \in {"name", "portalUrl", "location"} :
                missingOrEmpty(last'.payload, field)) =>
            /\ last'.outcome = "ValidationError"
            /\ inMemoryStore' = inMemoryStore
            /\ slot' = slot ]_vars

C5_Witness ==
    /\ last.op = "createUniversity"
    /\ last.outcome = "ValidationError"
    /\ "portalUrl" \notin DOMAIN last.payload
    /\ last.slotWas = "absent"

(***************************************************************************)
(* C6.  No two records of the collection share an id.                      *)
(***************************************************************************)
C6_UniqueIds ==
    \A i, j \in 1..Len(View) : View[i]["id"] = View[j]["id"] => i = j

(***************************************************************************)
(* C7.  Every record of the persisted collection has a non-empty name,     *)
(* portalUrl and location.                                                 *)
(***************************************************************************)
C7_RequiredFields ==
    slot.kind = "json" =>
        \A i \in 1..Len(slot.data) :
            \A field \in {"name", "portalUrl", "location"} :
                field \in DOMAIN slot.data[i] /\ slot.data[i][field] # <<>>

(***************************************************************************)
(* C8.  In every record the adapter returns, restrictedCountries has no    *)
(* blank entry and no two equal entries.                                   *)
(***************************************************************************)
C8_RestrictedCountries ==
    last.outcome = "ok" =>
        \A i \in 1..Len(last.ret) :
            noBlankNoDuplicate(Get(last.ret[i], "restrictedCountries", <<>>))

sameLetters(a, b) ==
    Len(a) = Len(b) /\ \A i \in 1..Len(a) : LowerChar(a[i]) = LowerChar(b[i])

nameContains(uni, f) ==
    \/ "search" \notin DOMAIN f
    \/ f["search"] = <<>>
    \/ \E from \in 1..Len(uni["name"]), to \in 1..Len(uni["name"]) :
            sameLetters(SubSeq(uni["name"], from, to), f["search"])

locationIs(uni, f) ==
    \/ "location" \notin DOMAIN f
    \/ f["location"] = <<>>
    \/ sameLetters(uni["location"], f["location"])

offersLevel(uni, f) ==
    \/ "degreeLevel" \notin DOMAIN f
    \/ /\ "programs" \in DOMAIN uni
       /\ f["degreeLevel"] \in DOMAIN uni["programs"]
       /\ uni["programs"][f["degreeLevel"]] # <<>>

matching(universities, f) ==
    {i \in 1..Len(universities) :
        /\ nameContains(universities[i], f)
        /\ locationIs(universities[i], f)
        /\ offersLevel(universities[i], f)}

\* ret is universities restricted to the positions in keep, in order
isSelection(ret, universities, keep) ==
    /\ Len(ret) = Cardinality(keep)
    /\ \A i \in keep :
        ret[Cardinality({j \in keep : j <= i})] = universities[i]

C10_FilterResult ==
    last.op = "getUniversities" =>
        isSelection(last.ret, View,
                    IF last.filters.given THEN matching(View, last.filters.f)
                    ELSE 1..Len(View))

C10_Witness ==
    /\ last.op = "getUniversities"
    /\ last.filters.given
    /\ DOMAIN last.filters.f = FilterKeys
    /\ last.filters.f["search"] # <<>>
    /\ last.filters.f["location"] # <<>>
    /\ Len(View) = 2
    /\ Len(last.ret) = 1
    /\ last.ret[1] = View[2]


(***************************************************************************)
(* C11.  Filtering is a conjunction: getUniversities with no filter object *)
(* or an empty one returns every stored record; the result for a filter    *)
(* object is contained in the result for the same object with any one of   *)
(* its predicates taken away; and the stored collection is the same after  *)
(* the call as before it.                                                  *)
(***************************************************************************)
without(fa, key) ==
    [given |-> TRUE, f |-> [k \in (DOMAIN fa.f) \ {key} |-> fa.f[k]]]

Elements(q) == {q[i] : i \in 1..Len(q)}

C11_PureConjunction ==
    [][ last'.op = "getUniversities" =>
            LET store == View
                G == last'.filters
            IN /\ ViewOf(slot', inMemoryStore') = store
               /\ (~G.given \/ G.f = EmptyObj) => last'.ret = store
               /\ \A key \in DOMAIN G.f :
                    /\ Elements(last'.ret)
                          \subseteq Elements(filterUniversities(store, without(G, key)))
                    /\ Len(last'.ret) <= Len(filterUniversities(store, without(G, key)))
       ]_vars

C11_Witness ==
    /\ last.op = "getUniversities"
    /\ last.filters.given
    /\ DOMAIN last.filters.f = FilterKeys
    /\ Len(last.ret) = 1
    /\ \E key \in FilterKeys :
            Len(filterUniversities(View, without(last.filters, key))) = 2

(***************************************************************************)
(* C12.  A successful createUniversity leaves the collection as it was     *)
(* with one record appended, persists that whole collection, and returns   *)
(* the stored record: getUniversity with the returned id, called right     *)
(* after, yields a record equal to the one returned.                       *)
(***************************************************************************)
\* what getUniversity(id) would return on the collection universities
found(universities, id) ==
    IF findIndex(universities, id) = 0 THEN <<>>
    ELSE <<universities[findIndex(universities, id)]>>

C12_CreateAppends ==
    [][ (last'.op = "createUniversity" /\ last'.outcome = "ok") =>
            LET before == View
                after == ViewOf(slot', inMemoryStore')
            IN /\ Len(last'.ret) = 1
               /\ after = Append(before, last'.ret[1])
               /\ hasStorage => slot' = stringify(after)
               /\ found(after, last'.ret[1]["id"]) = last'.ret ]_vars

(***************************************************************************)
(* C13.  getUniversity(id) fails with not-found exactly when no stored     *)
(* record has the id, otherwise returns a stored record whose id is the    *)
(* argument, and the collection is the same after the call as before it.   *)
(***************************************************************************)
C13_GetUniversity ==
    [][ last'.op = "getUniversity" =>
            /\ (last'.outcome = "NotFound") = (last'.id \notin IdsOf(View))
            /\ last'.outcome \in {"ok", "NotFound"}
            /\ last'.outcome = "ok" =>
                    /\ Len(last'.ret) = 1
                    /\ last'.ret[1]["id"] = last'.id
                    /\ last'.ret[1] \in Elements(View)
            /\ ViewOf(slot', inMemoryStore') = View ]_vars

C13_Witness ==
    /\ last.op = "getUniversity"
    /\ last.outcome = "NotFound"
    /\ last.id \notin IdsOf(View)
    /\ Len(View) = 2
    /\ last.slotWas = "json"


(***************************************************************************)
(* C14.  A load that settles after its page was torn down, or after the    *)
(* filters or the id it was started for were replaced, changes none of     *)
(* the data, error and isLoading of the page, whatever the order in which  *)
(* overlapping loads settle; and once every load of a mounted page has     *)
(* settled, the page is not loading and the result applied last is that of *)
(* the load started last.                                                  *)
(***************************************************************************)
shown(p) == <<p.data, p.error, p.isLoading>>

stale(p, n) == ~p.mounted \/ n # p.started

allSettled(p) == \A n \in 1..p.started : p.loads[n].state # "pending"

succeeded(n, op) == pending[n].op = op /\ pending[n].outcome = "ok"

created == {n \in 1..Len(pending) : succeeded(n, "createUniversity")}

lastUpdate(id, key) ==
    {n \in 1..Len(pending) :
        /\ succeeded(n, "updateUniversity")
        /\ pending[n].id = id
        /\ key \in DOMAIN pending[n].payload
        /\ \A later \in (n + 1)..Len(pending) :
            ~(/\ succeeded(later, "updateUniversity")
              /\ pending[later].id = id
              /\ key \in DOMAIN pending[later].payload)}

written(payload, key) == merged([restrictedCountries |-> <<>>], "", payload)[key]

C15_NoLostUpdate ==
    /\ Len(View) = Len(seedUniversities) + Cardinality(created)
    /\ \A n \in created : pending[n].ret[1]["id"] \in IdsOf(View)
    /\ \A id \in IdsOf(View), key \in {"name", "overview", "restrictedCountries"} :
        \A n \in lastUpdate(id, key) :
            /\ key \in DOMAIN found(View, id)[1]
            /\ found(View, id)[1][key] = written(pending[n].payload, key)

C15_Witness ==
    /\ Len(pending) = 2
    /\ succeeded(1, "updateUniversity")
    /\ succeeded(2, "updateUniversity")
    /\ pending[1].id = pending[2].id
    /\ pending[1].payload = [overview |-> <<"n">>]
    /\ pending[2].payload = [overview |-> <<"m">>]
    /\ pending[2].settled
    /\ last.op = "resolve" /\ last.payload = pending[1].payload
    /\ found(View, pending[1].id)[1]["overview"] = <<"m">>

(***************************************************************************)
(* C16.  A call that reads the store while the slot does not exist leaves  *)
(* the slot written: with the seed collection when the call only reads,    *)
(* with the seed collection and the new record when it is a create; and    *)
(* getUniversities() then returns the seed collection, getUniversity the   *)
(* seed record.  The seed collection is the bundled dataset as the module  *)
(* normalised it when it was loaded.                                       *)
(***************************************************************************)
C16_FirstAccessSeeds ==
    [][ (hasStorage /\ slot = Absent) =>
            /\ inMemoryStore = seedStore
            /\ (last'.op \in Reads \/ last'.outcome = "NotFound") =>
                    /\ slot' = stringify(seedStore)
                    /\ inMemoryStore' = seedStore
            /\ (last'.op = "getUniversities" /\ ~last'.filters.given) =>
                    last'.ret = seedStore
            /\ (last'.op = "getUniversity" /\ last'.outcome = "ok") =>
                    last'.ret = found(seedStore, last'.id)
            /\ (last'.op = "createUniversity" /\ last'.outcome = "ok") =>
                    slot' = stringify(Append(seedStore, last'.ret[1])) ]_vars

C16_Witness ==
    /\ last.op = "getUniversities"
    /\ ~last.filters.given
    /\ last.slotWas = "absent"
    /\ writes = 0
    /\ slot = stringify(seedStore)
    /\ last.ret = seedStore
    /\ Len(last.ret) > 0

(***************************************************************************)
(* C17.  normalizeUniversity applied to a record it returned returns that  *)
(* record: normalizeUniversity(normalizeUniversity(x)) =                   *)
(* normalizeUniversity(x) for every record x.                              *)
(***************************************************************************)
C17_Idempotent ==
    /\ (last.op = "input" =>
            normalizeUniversity(normalizeUniversity(last.payload))
                = normalizeUniversity(last.payload))
    /\ (last.op = "normalizeUniversity" =>
            /\ normalizeUniversity(last.ret[1]) = last.ret[1]
            /\ \A k \in DOMAIN last.payload \ {"restrictedCountries"} :
                    last.ret[1][k] = last.payload[k])

C17_Witness ==
    /\ last.op = "normalizeUniversity"
    /\ last.payload = last.ret[1]
    /\ last.ret[1]["restrictedCountries"] = << <<"U", " ", "V">>, <<"U">> >>

(***************************************************************************)
(* C18.  The payload handleSubmit passes to the adapter has, under each of *)
(* the three degree levels of programs and of scholarships, exactly the    *)
(* rows of the form whose name has a character other than a blank, in the  *)
(* order of the form.                                                      *)
(***************************************************************************)
named(rows) == {i \in 1..Len(rows) : \E c \in 1..Len(rows[i]["name"]) : rows[i]["name"][c] # " "}

keepsNamed(rows, out) ==
    /\ Len(out) = Cardinality(named(rows))
    /\ \A i \in named(rows) : out[Cardinality({j \in named(rows) : j <= i})] = rows[i]

C18_DropsBlankNames ==
    (last.caller = "handleSubmit" /\ last.outcome = "called") =>
        \A field \in {"programs", "scholarships"} :
            /\ DOMAIN last.payload[field] = DegreeLevel
            /\ \A level \in DegreeLevel :
                keepsNamed(admin.formState[field][level], last.payload[field][level])

C18_Witness ==
    /\ last.caller = "handleSubmit"
    /\ last.outcome = "called"
    /\ Len(admin.formState["programs"]["bachelor"]) = 2
    /\ admin.formState["programs"]["bachelor"][1]["name"] = <<" ">>
    /\ last.payload["programs"]["bachelor"] = <<Program(<<" ", "D">>)>>
    /\ Len(admin.formState["scholarships"]["masters"]) = 2
    /\ last.payload["scholarships"]["masters"] = <<Scholarship(<<"C">>), Scholarship(<<" ", "D">>)>>

(***************************************************************************)
(* C19.  Every remote operation has called fetch exactly once, whatever    *)
(* became of it; one that received a non-success status has rejected, with *)
(* a message that no other operation uses, and has not asked for the       *)
(* response body; and an operation that has settled calls fetch no more.   *)
(***************************************************************************)
C19_OneRequestNoRetry ==
    /\ [](\A n \in 1..Len(net) :
            /\ net[n].fetches = 1
            /\ net[n].status = "failed" =>
                /\ net[n].pc = "rejected"
                /\ ~net[n].parsed
                /\ net[n].error \notin {"", "TypeError", "SyntaxError"}
                /\ \A m \in 1..Len(net) :
                        (net[m].status = "failed" /\ net[m].error = net[n].error)
                            => net[m].op = net[n].op)
    /\ [][ \A n \in 1..Len(net) :
            net[n].pc \in {"rejected", "fulfilled"} => net'[n] = net[n] ]_vars

C19_Witness ==
    /\ Len(net) = 2
    /\ net[1].op = "createUniversity"
    /\ net[2].op = "getUniversities"
    /\ net[1].status = "failed"
    /\ net[2].status = "failed"
    /\ net[1].error = "Unable to create university"
    /\ net[2].error = "Unable to fetch universities"
    /\ net[2].request.url.search = EmptyObj

(***************************************************************************)
(* C20.  A submit that passed the required-field check comes to its end,   *)
(* and at its end isSaving is false and a status is set: an error status   *)
(* when the save rejected, a success status only when the save succeeded.  *)
(* A submit that fails the check calls no adapter operation and leaves the *)
(* store as it was.                                                        *)
(***************************************************************************)
C20_SubmitSettles ==
    /\ [](admin.pc = "done" =>
            /\ ~admin.isSaving
            /\ admin.status # NoStatus
            /\ admin.checked = "passed" =>
                    /\ admin.save # "ok" => admin.status[1].type = "error"
                    /\ admin.status[1].type = "success" => admin.save = "ok")
    /\ [](admin.status # NoStatus /\ admin.status[1].type = "success" =>
            admin.save = "ok" /\ admin.pc = "done")
    /\ [][ admin'.submits # admin.submits /\ admin'.checked = "failed" =>
            /\ admin'.calls = admin.calls
            /\ admin'.pc = "done"
            /\ <<slot, inMemoryStore>>' = <<slot, inMemoryStore>> ]_vars
    /\ (admin.pc \in {"saving", "loading"} ~> admin.pc = "done")

C20_Witness ==
    /\ admin.submits = 2
    /\ admin.pc = "done"
    /\ admin.checked = "passed"
    /\ admin.save = "ValidationError"
    /\ admin.status = Status("error", "ValidationError")
    /\ admin.calls = 4
    /\ ~admin.isSaving

(***************************************************************************)
(* C21.  With storage available, a createUniversity or updateUniversity    *)
(* that succeeded leaves the slot holding the whole collection, one record *)
(* more after a create and as many after an update, and equal to the       *)
(* in-memory store; and a getUniversities() without filters that comes     *)
(* next returns that collection and leaves slot and store as they were.    *)
(***************************************************************************)
Mutations == {"createUniversity", "updateUniversity"}

C21_CacheCoherent ==
    [][ /\ (hasStorage /\ last'.op \in Mutations /\ last'.outcome = "ok") =>
            /\ slot' = stringify(inMemoryStore')
            /\ Len(inMemoryStore') =
                    Len(View) + (IF last'.op = "createUniversity" THEN 1 ELSE 0)
            /\ last'.ret[1] \in Elements(inMemoryStore')
            /\ ViewOf(slot', inMemoryStore') = inMemoryStore'
        /\ (/\ hasStorage
            /\ last.op \in Mutations
            /\ last.outcome = "ok"
            /\ last'.op = "getUniversities"
            /\ ~last'.filters.given) =>
                /\ last'.ret = inMemoryStore
                /\ last'.ret = slot.data
                /\ slot' = slot
                /\ inMemoryStore' = inMemoryStore ]_vars

C21_Witness ==
    /\ hasStorage
    /\ last.op = "getUniversities"
    /\ ~last.filters.given
    /\ last.slotWas = "json"
    /\ writes = 2
    /\ Len(last.ret) = 3
    /\ last.ret = inMemoryStore
    /\ slot = stringify(inMemoryStore)

(***************************************************************************)
(* C22.  On the detail page, while it is mounted and the load for the id   *)
(* it is routed to has resolved, the page shows that record: isLoading is  *)
(* false, university is the record loaded for that id and error is null,   *)
(* whatever became of the loads for the ids it was routed to before.       *)
(***************************************************************************)
C22_DetailShowsRecord ==
    (/\ page.kind = "detail"
     /\ page.mounted
     /\ page.loads[page.started].state = "resolved") =>
        /\ ~page.isLoading
        /\ page.data = <<page.dep>>
        /\ page.error = <<>>

====
